---- MODULE Spec2Model ----
(***************************************************************************)
(* Model of coinbase-volatility-scanner.py: the rolling price history      *)
(* (update_price_history), the movement classifier and notification        *)
(* throttle (check_price_movements) and the tick loop of main that drives  *)
(* them.                                                                   *)
(*                                                                         *)
(* Time is counted in seconds since start-up.  Prices are integers; every  *)
(* percentage the code computes as a float is kept as an exact fraction    *)
(* <<numerator, denominator>> in lowest terms, and every comparison the    *)
(* code makes on such a percentage is made by cross-multiplication.        *)
(***************************************************************************)
EXTENDS Integers, Sequences, FiniteSets, TLC

VARIABLES
    clock,                  \* wall clock, seconds (datetime.now / time.time)
    pc,                     \* position of main inside the while-loop body
    ticks,                  \* number of loop iterations started so far
    pairs_file,             \* lines of PAIRS_FILE (active_pairs_no_usd.txt)
    prices,                 \* dict returned by fetch_prices in this tick
    PRICE_HISTORY,          \* pair -> sequence of <<timestamp, price>>
    history_keys,           \* insertion order of the keys of PRICE_HISTORY
    LAST_NOTIFIED,          \* pair -> percentage of the last plain notification
    LAST_NOTIFICATION_TIME, \* pair -> time of the last plain notification
    LAST_PRICES,            \* pair -> current_price of the last evaluation that passed both gates
    notifications,          \* list returned by the last check_price_movements
    emitted,                \* history: every notification appended so far, with its time
    last_eval,              \* history: what the last check_price_movements saw, per pair
    raised,                 \* the exception that ended main, NoException while it runs
    main_pairs,             \* main: pairs, the list load_pairs returned in this tick
    fetch_pos,              \* fetch_prices: position in pairs of the pair being fetched
    attempt,                \* fetch_prices: the loop variable of range(RETRY_ATTEMPTS)
    main_current_time,      \* main: current_time, time.time() at the top of this loop iteration
    last_update_time,       \* main: when update_active_pairs was last called
    initialization_time,    \* main: end of the initialization period
    initialization_posted,  \* main: the post-initialization message has been posted
    SHOW_INITIAL_ALERT,     \* global: the initial alert is still to be shown
    posts                   \* history: every send_to_discord call, with how the webhook answered

\* the locals of main and of fetch_prices that the pipeline steps leave alone
main_locals == <<fetch_pos, attempt, main_current_time, last_update_time, initialization_time,
                 initialization_posted, SHOW_INITIAL_ALERT, posts>>

vars == <<clock, pc, ticks, pairs_file, prices, PRICE_HISTORY, history_keys,
          LAST_NOTIFIED, LAST_NOTIFICATION_TIME, LAST_PRICES, notifications,
          emitted, last_eval, raised, main_pairs, fetch_pos, attempt, main_current_time,
          last_update_time, initialization_time, initialization_posted,
          SHOW_INITIAL_ALERT, posts>>

(***************************************************************************)
(* Configuration variables of the script.                                  *)
(***************************************************************************)
FETCH_INTERVAL == 15
NOTIFICATION_THRESHOLD == 1
WICK_MULTIPLIER == 3
NOTIFICATION_COOLDOWN == 5
NOTIFICATION_COOLDOWN_MULTIPLIER == 2
HISTORY_RETENTION_MINUTES == 60
HISTORICAL_INTERVAL_MINUTES == 60
RECENT_WINDOW_MINUTES == 5
VOLATILE_TEXT == ""
RETRY_ATTEMPTS == 5
RETRY_SLEEP == 2
UPDATE_INTERVAL_MINUTES == 300
DEBUG == FALSE
USE_DISCORD_WEBHOOK == TRUE

\* timedelta(minutes=m), in seconds
timedelta_minutes(m) == m * 60

(***************************************************************************)
(* Bounds of the model and the inputs the environment may supply.          *)
(***************************************************************************)
MaxTicks == 3
ExampleTicks == 4

\* prices[pair] = None when every attempt of fetch_prices failed
None == <<>>
Some(p) == <<p>>

\* an uncaught exception, and the function whose statement raised it
Exception(name, function) == [exception |-> name, function |-> function]
NoException == Exception("", "")

\* spot prices the feed may return for a pair, and the content of the pair file
Feed == [BTC |-> {1000, 1005, 1020, 1035}, ETH |-> {50, 52}]
\* (a line is the sequence of its pieces, whitespace or text, without the line terminator)
PairLines == <<<<"BTC">>, <<"ETH">>>>
\* the pairs whose request may fail on every attempt
Unreliable == {"ETH"}
\* seconds from the start of one loop iteration to the start of the next
Steps == {FETCH_INTERVAL, timedelta_minutes(NOTIFICATION_COOLDOWN), timedelta_minutes(HISTORY_RETENTION_MINUTES)}

\* the worked example of the specification: one pair, four or five ticks a few seconds apart
ExampleFeed == [BTC |-> {30000, 30050, 30400, 30500, 30930}]
ExampleLines == <<<<"BTC">>>>
ExampleUnreliable == {}
ExampleSteps == {FETCH_INTERVAL, 2 * FETCH_INTERVAL}

\* a pair whose requests fail for a tick while its history is still fresh
StaleTicks == 4
StaleFeed == [BTC |-> {1000, 1020, 1035}, ETH |-> {50}]
StaleUnreliable == {"BTC"}
StaleSteps == {FETCH_INTERVAL, timedelta_minutes(NOTIFICATION_COOLDOWN) - FETCH_INTERVAL}

\* the whole of main: start-up, the refresh of the pair file, the webhook
MainTicks == 3
MainFeed == [BTC |-> {1000, 1035}, ETH |-> {50}]
MainUnreliable == {}
\* the pairs whose answer may lack data.amount or not be JSON at all
MainMalformed == {"ETH"}
MainSteps == {FETCH_INTERVAL, timedelta_minutes(HISTORICAL_INTERVAL_MINUTES)}
\* the whole of main over a feed that may fail, answer nonsense or quote a price of 0
FetchTicks == 3
ZeroFeed == [BTC |-> {0, 1000, 1035}, ETH |-> {50}]
ZeroUnreliable == {"ETH"}
ZeroMalformed == {"ETH"}
ZeroSteps == {FETCH_INTERVAL, timedelta_minutes(HISTORICAL_INTERVAL_MINUTES)}
\* a pair file with surrounding whitespace, a blank line and a duplicate
UntidyLines == <<<<" ", "BTC">>, <<>>, <<"BTC", " ">>>>
\* a pair file that names one symbol twice and nothing else
DuplicateLines == <<<<"BTC">>, <<"BTC">>>>
\* the base currencies the products endpoint may list as traded against USD
Listings == {{"BTC", "ETH"}, {"BTC"}}
\* how the webhook may answer a post: 2xx, an error status, or no connection at all
Webhook == {"delivered", "rejected", "unreachable"}
\* sorted() of the symbols
Alphabetical == <<"", "BTC", "ETH">>

(***************************************************************************)
(* Arithmetic.                                                             *)
(***************************************************************************)
Abs(x) == IF x < 0 THEN -x ELSE x

RECURSIVE GCD(_, _)
GCD(a, b) == IF b = 0 THEN a ELSE GCD(b, a % b)

\* the fraction n/d (d > 0) in lowest terms
Frac(n, d) == LET g == GCD(Abs(n), d) IN <<n \div g, d \div g>>

Zero == Frac(0, 1)

\* ((a - b) / b) * 100
percent_change(a, b) == Frac((a - b) * 100, b)

\* abs(x - y) < k
AbsDiffLess(x, y, k) == Abs(x[1] * y[2] - y[1] * x[2]) < k * x[2] * y[2]

\* abs(x) >= k
AbsAtLeast(x, k) == Abs(x[1]) >= k * x[2]

RECURSIVE SeqMax(_)
SeqMax(s) == IF Len(s) = 1 THEN s[1]
             ELSE LET m == SeqMax(Tail(s)) IN IF s[1] > m THEN s[1] ELSE m

RECURSIVE SeqMin(_)
SeqMin(s) == IF Len(s) = 1 THEN s[1]
             ELSE LET m == SeqMin(Tail(s)) IN IF s[1] < m THEN s[1] ELSE m

Range(s) == {s[i] : i \in 1..Len(s)}

\* dict.get(key, default)
Get(d, key, default) == IF key \in DOMAIN d THEN d[key] ELSE default

\* d[key] = value
Put(d, key, value) == [k \in DOMAIN d \cup {key} |-> IF k = key THEN value ELSE d[k]]

(***************************************************************************)
(* load_pairs and fetch_prices.                                            *)
(***************************************************************************)
\* PAIRS_FILE on disk: missing, or holding a sequence of lines
NoFile == [exists |-> FALSE, lines |-> <<>>]
File(lines) == [exists |-> TRUE, lines |-> lines]

Whitespace == {" ", "\t"}

\* str.strip: drop the leading and the trailing whitespace of a line, keep the rest
RECURSIVE lstrip(_)
lstrip(line) ==
    IF line # <<>> /\ Head(line) \in Whitespace THEN lstrip(Tail(line)) ELSE line

RECURSIVE rstrip(_)
rstrip(line) ==
    IF line # <<>> /\ line[Len(line)] \in Whitespace
    THEN rstrip(SubSeq(line, 1, Len(line) - 1))
    ELSE line

\* the string made of the pieces of a line
RECURSIVE Join(_)
Join(line) == IF line = <<>> THEN "" ELSE Head(line) \o Join(Tail(line))

strip(line) == Join(rstrip(lstrip(line)))

\* load_pairs of an existing file: every line of the file, stripped, in order
load_pairs(file) == [i \in 1..Len(file.lines) |-> strip(file.lines[i])]

\* the dicts fetch_prices may return for a pair list: one entry per pair,
\* a price of the feed or None
FetchResults(pairs, feed, unreliable) ==
    {f \in [Range(pairs) -> {None} \cup {Some(p) : p \in UNION {feed[q] : q \in DOMAIN feed}}] :
        \A q \in Range(pairs) : IF f[q] = None THEN q \in unreliable ELSE f[q][1] \in feed[q]}

\* sorted(symbols)
sorted(symbols) == SelectSeq(Alphabetical, LAMBDA x : x \in symbols)

\* what the products endpoint may answer: the traded base currencies, a
\* RequestException (lines 120-124), or a body that is not JSON (line 126)
ProductsAnswers(listings) ==
    {[status |-> "listed", base |-> l] : l \in listings}
        \cup {[status |-> "failed", base |-> {}], [status |-> "malformed", base |-> {}]}

\* lines 117-148: PAIRS_FILE after update_active_pairs
update_active_pairs(file, answer) ==
    IF answer.status = "failed" THEN file
    ELSE LET current_active_pairs_no_usd == sorted(answer.base)
             previous_active_pairs_no_usd ==
                 IF file.exists THEN {Join(file.lines[i]) : i \in 1..Len(file.lines)} ELSE {}
         IN  IF Range(current_active_pairs_no_usd) # previous_active_pairs_no_usd
             THEN File([i \in 1..Len(current_active_pairs_no_usd) |->
                           <<current_active_pairs_no_usd[i]>>])
             ELSE file

(***************************************************************************)
(* update_price_history.                                                   *)
(***************************************************************************)
\* lines 201 and 210 with the comparison turned round: the samples not newer than since
Window_until(history, since) == SelectSeq(history, LAMBDA s : s[1] <= since)

\* the samples of history with timestamp >= since
Window(history, since) == SelectSeq(history, LAMBDA s : s[1] >= since)

PricesOf(samples) == [i \in 1..Len(samples) |-> samples[i][2]]

\* lines 185-190 with the eviction left out
append_and_evict_keep_all(history, current_time, price) ==
    Append(history, <<current_time, price>>)

\* lines 185-190: append the sample, drop what is not newer than the retention period
append_and_evict(history, current_time, price) ==
    SelectSeq(Append(history, <<current_time, price>>),
              LAMBDA s : s[1] > current_time - timedelta_minutes(HISTORY_RETENTION_MINUTES))

\* the keys of PRICE_HISTORY after the loop over prices.items() (the order of pairs)
RECURSIVE keys_after(_, _, _)
keys_after(keys, pairs, fetched) ==
    IF pairs = <<>> THEN keys
    ELSE LET p == Head(pairs)
             k == IF fetched[p] # None /\ p \notin Range(keys) THEN Append(keys, p) ELSE keys
         IN keys_after(k, Tail(pairs), fetched)

\* lines 180-190 with the None check of line 181 placed after the eviction of line 187
update_price_history_none_evicts(history, fetched, current_time) ==
    [p \in DOMAIN history \cup DOMAIN fetched |->
        IF p \in DOMAIN fetched /\ fetched[p] # None
        THEN append_and_evict(Get(history, p, <<>>), current_time, fetched[p][1])
        ELSE SelectSeq(Get(history, p, <<>>),
                       LAMBDA s : s[1] > current_time - timedelta_minutes(HISTORY_RETENTION_MINUTES))]

\* lines 180-190: for pair, price in prices.items()
update_price_history(history, fetched, current_time) ==
    [p \in DOMAIN history \cup {q \in DOMAIN fetched : fetched[q] # None} |->
        IF p \in DOMAIN fetched /\ fetched[p] # None
        THEN append_and_evict(Get(history, p, <<>>), current_time, fetched[p][1])
        ELSE history[p]]

(***************************************************************************)
(* What a claim says about one pair at evaluation time t, read off the    *)
(* state: the 5-minute window and the conditions of section 4.2 and 4.3.   *)
(***************************************************************************)
RecentPrices(p, t) ==
    PricesOf(Window(PRICE_HISTORY[p], t - timedelta_minutes(RECENT_WINDOW_MINUTES)))

HasRecent(p, t) == p \in DOMAIN PRICE_HISTORY /\ Len(RecentPrices(p, t)) > 0

InitialPrice(p, t) == RecentPrices(p, t)[1]

CurrentPrice(p, t) == RecentPrices(p, t)[Len(RecentPrices(p, t))]

Change(p, t) == percent_change(CurrentPrice(p, t), InitialPrice(p, t))

UpwardWick(p, t) ==
    SeqMax(RecentPrices(p, t)) * 100
        > InitialPrice(p, t) * (100 + WICK_MULTIPLIER * NOTIFICATION_THRESHOLD)

DownwardWick(p, t) ==
    SeqMin(RecentPrices(p, t)) * 100
        < InitialPrice(p, t) * (100 - WICK_MULTIPLIER * NOTIFICATION_THRESHOLD)

WickCondition(p, t) == UpwardWick(p, t) \/ DownwardWick(p, t)

PlainCondition(p, t) == AbsAtLeast(Change(p, t), NOTIFICATION_THRESHOLD)

\* a plain notification for p was emitted less than the cooldown before t
RecentPlain(p, t) ==
    \E i \in 1..Len(emitted) :
        /\ emitted[i].pair = p
        /\ ~emitted[i].wicked
        /\ emitted[i].time < t
        /\ t - emitted[i].time < timedelta_minutes(NOTIFICATION_COOLDOWN)

\* gate 1 of section 4.3
CooldownSuppresses(p, t) ==
    /\ RecentPlain(p, t)
    /\ AbsDiffLess(Change(p, t), Get(LAST_NOTIFIED, p, Zero),
                   NOTIFICATION_THRESHOLD * NOTIFICATION_COOLDOWN_MULTIPLIER)

\* gate 2 of section 4.3 passes
LastPriceGatePasses(p, t) ==
    \/ p \notin DOMAIN LAST_PRICES
    \/ LAST_PRICES[p] = 0
    \/ AbsAtLeast(percent_change(CurrentPrice(p, t), LAST_PRICES[p]), NOTIFICATION_THRESHOLD)

\* the entry of p is the same in dicts d and e (absent in both, or equal)
SameEntry(d, e, p) ==
    /\ (p \in DOMAIN d) = (p \in DOMAIN e)
    /\ p \in DOMAIN d => d[p] = e[p]

\* s is the last Len(s) elements of t
IsSuffix(s, t) ==
    /\ Len(s) <= Len(t)
    /\ s = SubSeq(t, Len(t) - Len(s) + 1, Len(t))

\* window lengths, in seconds: those of lines 200 and 210 and the ones around them
Durations == {0, FETCH_INTERVAL, timedelta_minutes(RECENT_WINDOW_MINUTES),
              timedelta_minutes(HISTORICAL_INTERVAL_MINUTES)}

Symbols == Range(load_pairs(File(PairLines))) \cup Range(load_pairs(File(ExampleLines)))

For(list, p) == SelectSeq(list, LAMBDA n : n.pair = p)

Wicks(list, p) == SelectSeq(list, LAMBDA n : n.pair = p /\ n.wicked)

Plains(list, p) == SelectSeq(list, LAMBDA n : n.pair = p /\ ~n.wicked)

(***************************************************************************)
(* check_price_movements.                                                  *)
(***************************************************************************)
\* format_notification: the two messages are determined by these five arguments
format_notification(pair, change, current_price, historical_change, extra_info) ==
    [pair |-> pair, change |-> change, current_price |-> current_price,
     historical_change |-> historical_change, extra_info |-> extra_info]

\* an element of the list notifications; wicked is the local flag of the branch that appended it
Notification(m, extra_info, wicked) ==
    format_notification(m.pair, m.percentage_change, m.current_price,
                        m.historical_percentage_change, extra_info)
        @@ [wicked |-> wicked]

\* lines 234-246 with the cooldown bookkeeping of line 245-246 also done in the wick branches
detect_and_notify_wick_bookkeeping(st, m) ==
    LET up == m.high_price * 100
                  > m.initial_price * (100 + WICK_MULTIPLIER * NOTIFICATION_THRESHOLD)
        down == m.low_price * 100
                  < m.initial_price * (100 - WICK_MULTIPLIER * NOTIFICATION_THRESHOLD)
    IN  IF up \/ down
        THEN [st EXCEPT
                !.notifications = Append(@, Notification(m, VOLATILE_TEXT, TRUE)),
                !.LAST_NOTIFIED = Put(@, m.pair, m.percentage_change),
                !.LAST_NOTIFICATION_TIME = Put(@, m.pair, m.current_time)]
        ELSE IF AbsAtLeast(m.percentage_change, NOTIFICATION_THRESHOLD)
        THEN [st EXCEPT
                !.notifications = Append(@, Notification(m, "", FALSE)),
                !.LAST_NOTIFIED = Put(@, m.pair, m.percentage_change),
                !.LAST_NOTIFICATION_TIME = Put(@, m.pair, m.current_time)]
        ELSE st

\* lines 234-246 with line 246 (LAST_NOTIFICATION_TIME[pair] = current_time) left out
detect_and_notify_no_time(st, m) ==
    LET up == m.high_price * 100
                  > m.initial_price * (100 + WICK_MULTIPLIER * NOTIFICATION_THRESHOLD)
        down == m.low_price * 100
                  < m.initial_price * (100 - WICK_MULTIPLIER * NOTIFICATION_THRESHOLD)
    IN  IF up \/ down
        THEN [st EXCEPT !.notifications = Append(@, Notification(m, VOLATILE_TEXT, TRUE))]
        ELSE IF AbsAtLeast(m.percentage_change, NOTIFICATION_THRESHOLD)
        THEN [st EXCEPT
                !.notifications = Append(@, Notification(m, "", FALSE)),
                !.LAST_NOTIFIED = Put(@, m.pair, m.percentage_change)]
        ELSE st

\* lines 234-246 with "and not wicked" left out of line 243
detect_and_notify_no_precedence(st, m) ==
    LET up == m.high_price * 100
                  > m.initial_price * (100 + WICK_MULTIPLIER * NOTIFICATION_THRESHOLD)
        down == m.low_price * 100
                  < m.initial_price * (100 - WICK_MULTIPLIER * NOTIFICATION_THRESHOLD)
        st1 == IF up \/ down
               THEN [st EXCEPT !.notifications = Append(@, Notification(m, VOLATILE_TEXT, TRUE))]
               ELSE st
    IN  IF AbsAtLeast(m.percentage_change, NOTIFICATION_THRESHOLD)
        THEN [st1 EXCEPT
                !.notifications = Append(@, Notification(m, "", FALSE)),
                !.LAST_NOTIFIED = Put(@, m.pair, m.percentage_change),
                !.LAST_NOTIFICATION_TIME = Put(@, m.pair, m.current_time)]
        ELSE st1

\* lines 234-246 with WICK_MULTIPLIER left out of lines 236 and 239
detect_and_notify_no_multiplier(st, m) ==
    LET up == m.high_price * 100 > m.initial_price * (100 + NOTIFICATION_THRESHOLD)
        down == m.low_price * 100 < m.initial_price * (100 - NOTIFICATION_THRESHOLD)
    IN  IF up \/ down
        THEN [st EXCEPT !.notifications = Append(@, Notification(m, VOLATILE_TEXT, TRUE))]
        ELSE IF AbsAtLeast(m.percentage_change, NOTIFICATION_THRESHOLD)
        THEN [st EXCEPT
                !.notifications = Append(@, Notification(m, "", FALSE)),
                !.LAST_NOTIFIED = Put(@, m.pair, m.percentage_change),
                !.LAST_NOTIFICATION_TIME = Put(@, m.pair, m.current_time)]
        ELSE st

\* lines 234-246: wick detection, then the plain movement
detect_and_notify(st, m) ==
    LET up == m.high_price * 100
                  > m.initial_price * (100 + WICK_MULTIPLIER * NOTIFICATION_THRESHOLD)
        down == m.low_price * 100
                  < m.initial_price * (100 - WICK_MULTIPLIER * NOTIFICATION_THRESHOLD)
        wicked == up \/ down
        st1 == IF up
               THEN [st EXCEPT !.notifications = Append(@, Notification(m, VOLATILE_TEXT, TRUE))]
               ELSE IF down
               THEN [st EXCEPT !.notifications = Append(@, Notification(m, VOLATILE_TEXT, TRUE))]
               ELSE st
    IN  IF AbsAtLeast(m.percentage_change, NOTIFICATION_THRESHOLD) /\ ~wicked
        THEN [st1 EXCEPT
                !.notifications = Append(@, Notification(m, "", FALSE)),
                !.LAST_NOTIFIED = Put(@, m.pair, m.percentage_change),
                !.LAST_NOTIFICATION_TIME = Put(@, m.pair, m.current_time)]
        ELSE st1

\* lines 224-232 without the continue of line 229
last_price_gate_open(st, m) ==
    detect_and_notify([st EXCEPT !.LAST_PRICES = Put(@, m.pair, m.current_price)], m)

\* lines 224-232: the last-price gate, then LAST_PRICES[pair] = current_price
last_price_gate(st, m) ==
    LET last_price == Get(st.LAST_PRICES, m.pair, 0)
    IN  IF last_price # 0
           /\ ~AbsAtLeast(percent_change(m.current_price, last_price), NOTIFICATION_THRESHOLD)
        THEN st
        ELSE detect_and_notify([st EXCEPT !.LAST_PRICES = Put(@, m.pair, m.current_price)], m)

\* line 221 with the seconds of line 220 not converted to minutes
in_cooldown_seconds(st, m) ==
    /\ m.current_time - st.LAST_NOTIFICATION_TIME[m.pair] < NOTIFICATION_COOLDOWN
    /\ AbsDiffLess(m.percentage_change, Get(st.LAST_NOTIFIED, m.pair, Zero),
                   NOTIFICATION_THRESHOLD * NOTIFICATION_COOLDOWN_MULTIPLIER)

\* line 221: within the cooldown and the change is not significant
in_cooldown(st, m) ==
    /\ m.current_time - st.LAST_NOTIFICATION_TIME[m.pair]
           < timedelta_minutes(NOTIFICATION_COOLDOWN)
    /\ AbsDiffLess(m.percentage_change, Get(st.LAST_NOTIFIED, m.pair, Zero),
                   NOTIFICATION_THRESHOLD * NOTIFICATION_COOLDOWN_MULTIPLIER)

\* lines 217-232 with line 232 (LAST_PRICES[pair] = current_price) moved above the gates
cooldown_gate_price_first(st, m) ==
    LET st0 == [st EXCEPT !.LAST_PRICES = Put(@, m.pair, m.current_price)]
        last_price == Get(st.LAST_PRICES, m.pair, 0)
    IN  IF m.pair \in DOMAIN st.LAST_NOTIFICATION_TIME /\ in_cooldown(st, m)
        THEN st0
        ELSE IF last_price # 0
                /\ ~AbsAtLeast(percent_change(m.current_price, last_price), NOTIFICATION_THRESHOLD)
        THEN st0
        ELSE detect_and_notify(st0, m)

\* lines 217-222: the cooldown gate
cooldown_gate(st, m) ==
    IF m.pair \in DOMAIN st.LAST_NOTIFICATION_TIME /\ in_cooldown(st, m)
    THEN st
    ELSE last_price_gate(st, m)

\* lines 199-215: the statistics of the two windows
window_stats(pair, history, current_time) ==
    LET recent_prices ==
            PricesOf(Window(history, current_time - timedelta_minutes(RECENT_WINDOW_MINUTES)))
        historical_prices ==
            PricesOf(Window(history, current_time - timedelta_minutes(HISTORICAL_INTERVAL_MINUTES)))
        current_price == recent_prices[Len(recent_prices)]
    IN  [pair |-> pair,
         current_time |-> current_time,
         initial_price |-> recent_prices[1],
         current_price |-> current_price,
         high_price |-> SeqMax(recent_prices),
         low_price |-> SeqMin(recent_prices),
         percentage_change |-> percent_change(current_price, recent_prices[1]),
         historical_percentage_change |->
            IF Len(historical_prices) > 0
            THEN percent_change(current_price, historical_prices[1])
            ELSE Zero]

\* lines 199-246: the body of the loop for one pair
check_pair(st, pair, history, now) ==
    LET recent == Window(history, now - timedelta_minutes(RECENT_WINDOW_MINUTES))
        historical == Window(history, now - timedelta_minutes(HISTORICAL_INTERVAL_MINUTES))
    IN  IF Len(history) > 0 /\ Len(recent) > 0
        THEN IF recent[1][2] = 0
                \* line 207 divides by initial_price
             THEN [st EXCEPT !.raised = Exception("ZeroDivisionError", "check_price_movements")]
             ELSE IF Len(historical) > 0 /\ historical[1][2] = 0
                \* line 213 divides by historical_initial_price
             THEN [st EXCEPT !.raised = Exception("ZeroDivisionError", "check_price_movements")]
             ELSE cooldown_gate(st, window_stats(pair, history, now))
        ELSE st

\* lines 198-247: for pair, history in PRICE_HISTORY.items()
RECURSIVE check_loop(_, _, _, _)
check_loop(st, keys, histories, now) ==
    IF keys = <<>> \/ st.raised # NoException THEN st
    ELSE check_loop(check_pair(st, Head(keys), histories[Head(keys)], now),
                    Tail(keys), histories, now)

\* the dicts and the list after the call, and the exception that left it, if any
check_price_movements(now) ==
    check_loop([LAST_NOTIFIED |-> LAST_NOTIFIED,
                LAST_NOTIFICATION_TIME |-> LAST_NOTIFICATION_TIME,
                LAST_PRICES |-> LAST_PRICES,
                notifications |-> <<>>,
                raised |-> NoException],
               history_keys, PRICE_HISTORY, now)

(***************************************************************************)
(* The loop of main: one action per statement of the loop body.            *)
(***************************************************************************)
InitWith(lines) ==
    /\ clock = 0
    /\ pc = "fetch"
    /\ ticks = 0
    /\ pairs_file = File(lines)
    /\ prices = <<>>
    /\ PRICE_HISTORY = <<>>
    /\ history_keys = <<>>
    /\ LAST_NOTIFIED = <<>>
    /\ LAST_NOTIFICATION_TIME = <<>>
    /\ LAST_PRICES = <<>>
    /\ notifications = <<>>
    /\ emitted = <<>>
    /\ last_eval = <<>>
    /\ raised = NoException
    /\ main_pairs = <<>>
    /\ fetch_pos = 1
    /\ attempt = 0
    /\ main_current_time = 0
    /\ last_update_time = 0
    /\ initialization_time = timedelta_minutes(HISTORICAL_INTERVAL_MINUTES)
    /\ initialization_posted = FALSE
    /\ SHOW_INITIAL_ALERT = FALSE
    /\ posts = <<>>

\* lines 341-342: pairs = load_pairs(PAIRS_FILE); prices = fetch_prices(pairs)
FetchPrices(feed, unreliable, max) ==
    /\ pc = "fetch"
    /\ ticks < max
    /\ main_pairs' = load_pairs(pairs_file)
    /\ prices' \in FetchResults(main_pairs', feed, unreliable)
    /\ ticks' = ticks + 1
    /\ pc' = "update"
    /\ UNCHANGED <<clock, pairs_file, PRICE_HISTORY, history_keys, LAST_NOTIFIED,
                   LAST_NOTIFICATION_TIME, LAST_PRICES, notifications, emitted, last_eval,
                   raised, main_locals>>

\* line 343: update_price_history(prices).  Its datetime.now() (line 178) and the one of
\* check_price_movements (line 195) are read within the same second: both are clock.
UpdatePriceHistory ==
    /\ pc = "update"
    /\ PRICE_HISTORY' = update_price_history(PRICE_HISTORY, prices, clock)
    /\ history_keys' = keys_after(history_keys, main_pairs, prices)
    /\ pc' = "check"
    /\ UNCHANGED <<clock, ticks, pairs_file, prices, LAST_NOTIFIED,
                   LAST_NOTIFICATION_TIME, LAST_PRICES, notifications, emitted, last_eval,
                   raised, main_pairs, main_locals>>

\* line 344: notifications = check_price_movements().  An exception raised inside the
\* call is caught nowhere: main ends, the dict entries written before it stay written
\* and the assignment to notifications does not happen.
CheckPriceMovements ==
    /\ pc = "check"
    /\ LET r == check_price_movements(clock)
       IN  /\ LAST_NOTIFIED' = r.LAST_NOTIFIED
           /\ LAST_NOTIFICATION_TIME' = r.LAST_NOTIFICATION_TIME
           /\ LAST_PRICES' = r.LAST_PRICES
           /\ raised' = r.raised
           /\ IF r.raised = NoException
              THEN /\ notifications' = r.notifications
                   /\ emitted' = emitted \o [i \in 1..Len(r.notifications) |->
                                                r.notifications[i] @@ [time |-> clock]]
                   /\ last_eval' =
                        [p \in {q \in DOMAIN PRICE_HISTORY : HasRecent(q, clock)} |->
                            [time |-> clock,
                             wick |-> WickCondition(p, clock),
                             up |-> UpwardWick(p, clock),
                             plain |-> PlainCondition(p, clock),
                             last_price_ok |-> LastPriceGatePasses(p, clock),
                             cooldown_ok |-> ~CooldownSuppresses(p, clock)]]
                   /\ pc' = "send"
              ELSE /\ pc' = "crashed"
                   /\ UNCHANGED <<notifications, emitted, last_eval>>
    /\ UNCHANGED <<clock, ticks, pairs_file, prices, PRICE_HISTORY, history_keys,
                   main_pairs, main_locals>>

\* line 345: send_notifications(notifications)
SendNotifications ==
    /\ pc = "send"
    /\ pc' = "sleep"
    /\ UNCHANGED <<clock, ticks, pairs_file, prices, PRICE_HISTORY, history_keys,
                   LAST_NOTIFIED, LAST_NOTIFICATION_TIME, LAST_PRICES, notifications,
                   emitted, last_eval, raised, main_pairs, main_locals>>

\* line 354: time.sleep(FETCH_INTERVAL), and the time the requests of the next iteration take
Sleep(steps) ==
    /\ pc = "sleep"
    /\ \E d \in steps : clock' = clock + d
    /\ pc' = "fetch"
    /\ UNCHANGED <<ticks, pairs_file, prices, PRICE_HISTORY, history_keys,
                   LAST_NOTIFIED, LAST_NOTIFICATION_TIME, LAST_PRICES, notifications,
                   emitted, last_eval, raised, main_pairs, main_locals>>

Init == InitWith(PairLines)

Next ==
    \/ FetchPrices(Feed, Unreliable, MaxTicks)
    \/ UpdatePriceHistory
    \/ CheckPriceMovements
    \/ SendNotifications
    \/ Sleep(Steps)

Spec == Init /\ [][Next]_vars

InitExample == InitWith(ExampleLines)

NextExample ==
    \/ FetchPrices(ExampleFeed, ExampleUnreliable, ExampleTicks)
    \/ UpdatePriceHistory
    \/ CheckPriceMovements
    \/ SendNotifications
    \/ Sleep(ExampleSteps)

SpecExample == InitExample /\ [][NextExample]_vars

NextStale ==
    \/ FetchPrices(StaleFeed, StaleUnreliable, StaleTicks)
    \/ UpdatePriceHistory
    \/ CheckPriceMovements
    \/ SendNotifications
    \/ Sleep(StaleSteps)

SpecStale == Init /\ [][NextStale]_vars

(***************************************************************************)
(* The whole of main, lines 322-354: start-up, the refresh of the pair     *)
(* file, fetch_prices attempt by attempt, the webhook and the              *)
(* post-initialization message.  An exception no statement catches ends    *)
(* main: pc becomes "crashed" and raised names it.                         *)
(***************************************************************************)
\* lines 317-319: requests.post(WEBHOOK_URL, json=data), its answer not looked at;
\* no try, so an exception of requests.post leaves the function
send_to_discord(message, answer) ==
    /\ posts' = Append(posts, [message |-> message, answer |-> answer,
                               tick |-> ticks, time |-> clock])
    /\ raised' = IF answer = "unreachable"
                 THEN Exception("ConnectionError", "send_to_discord")
                 ELSE raised

\* where main goes on after a call that may have raised
after_call(next) == IF raised' # NoException THEN "crashed" ELSE next

\* line 348 with > for >=
post_initialization_due_strict(posted, now, deadline) == ~posted /\ now > deadline

\* line 348: not initialization_posted and current_time >= initialization_time
post_initialization_due(posted, now, deadline) == ~posted /\ now >= deadline

\* the script is started; PAIRS_FILE is what an earlier run left on disk, if anything
InitMainWith(files) ==
    /\ clock = 0
    /\ pc = "start"
    /\ ticks = 0
    /\ pairs_file \in files
    /\ prices = <<>>
    /\ PRICE_HISTORY = <<>>
    /\ history_keys = <<>>
    /\ LAST_NOTIFIED = <<>>
    /\ LAST_NOTIFICATION_TIME = <<>>
    /\ LAST_PRICES = <<>>
    /\ notifications = <<>>
    /\ emitted = <<>>
    /\ last_eval = <<>>
    /\ raised = NoException
    /\ main_pairs = <<>>
    /\ fetch_pos = 1
    /\ attempt = 0
    /\ main_current_time = 0
    /\ last_update_time = 0
    /\ initialization_time = 0
    /\ initialization_posted = FALSE
    /\ SHOW_INITIAL_ALERT = TRUE
    /\ posts = <<>>

\* lines 323-333: the locals of main and the initial alert
Startup(webhook) ==
    /\ pc = "start"
    /\ last_update_time' = clock - timedelta_minutes(UPDATE_INTERVAL_MINUTES)
    /\ initialization_time' = clock + timedelta_minutes(HISTORICAL_INTERVAL_MINUTES)
    /\ initialization_posted' = FALSE
    /\ IF SHOW_INITIAL_ALERT /\ USE_DISCORD_WEBHOOK
       THEN \E answer \in webhook : send_to_discord("INITIAL_ALERT_MESSAGE", answer)
       ELSE UNCHANGED <<posts, raised>>
    /\ SHOW_INITIAL_ALERT' = IF raised' # NoException THEN SHOW_INITIAL_ALERT ELSE FALSE
    /\ pc' = after_call("tick")
    /\ UNCHANGED <<clock, ticks, pairs_file, prices, PRICE_HISTORY, history_keys,
                   LAST_NOTIFIED, LAST_NOTIFICATION_TIME, LAST_PRICES, notifications,
                   emitted, last_eval, main_pairs, fetch_pos, attempt, main_current_time>>

\* lines 336-339: current_time = time.time(), and update_active_pairs when it is due.
\* A products answer that is not JSON raises at line 126, outside the try.
TickStart(listings, max) ==
    /\ pc = "tick"
    /\ ticks < max
    /\ ticks' = ticks + 1
    /\ main_current_time' = clock
    /\ IF clock - last_update_time >= timedelta_minutes(UPDATE_INTERVAL_MINUTES)
       THEN \E answer \in ProductsAnswers(listings) :
                IF answer.status = "malformed"
                THEN /\ raised' = Exception("JSONDecodeError", "update_active_pairs")
                     /\ UNCHANGED <<pairs_file, last_update_time>>
                ELSE /\ pairs_file' = update_active_pairs(pairs_file, answer)
                     /\ last_update_time' = clock
                     /\ UNCHANGED raised
       ELSE UNCHANGED <<pairs_file, last_update_time, raised>>
    /\ pc' = after_call("load")
    /\ UNCHANGED <<clock, prices, PRICE_HISTORY, history_keys, LAST_NOTIFIED,
                   LAST_NOTIFICATION_TIME, LAST_PRICES, notifications, emitted, last_eval,
                   main_pairs, fetch_pos, attempt, initialization_time,
                   initialization_posted, SHOW_INITIAL_ALERT, posts>>

\* line 341: pairs = load_pairs(PAIRS_FILE); open() raises when the file is missing.
\* Line 152: prices = {}
LoadPairs ==
    /\ pc = "load"
    /\ IF pairs_file.exists
       THEN /\ main_pairs' = load_pairs(pairs_file)
            /\ prices' = <<>>
            /\ fetch_pos' = 1
            /\ attempt' = 0
            /\ UNCHANGED raised
       ELSE /\ raised' = Exception("FileNotFoundError", "load_pairs")
            /\ UNCHANGED <<main_pairs, prices, fetch_pos, attempt>>
    /\ pc' = after_call("attempt")
    /\ UNCHANGED <<clock, ticks, pairs_file, PRICE_HISTORY, history_keys, LAST_NOTIFIED,
                   LAST_NOTIFICATION_TIME, LAST_PRICES, notifications, emitted, last_eval,
                   main_current_time, last_update_time, initialization_time,
                   initialization_posted, SHOW_INITIAL_ALERT, posts>>

\* lines 155-160: an attempt that succeeds
FetchSucceeds(feed) ==
    /\ pc = "attempt"
    /\ fetch_pos <= Len(main_pairs)
    /\ main_pairs[fetch_pos] \in DOMAIN feed
    /\ \E price \in feed[main_pairs[fetch_pos]] :
          prices' = Put(prices, main_pairs[fetch_pos], Some(price))
    /\ fetch_pos' = fetch_pos + 1
    /\ attempt' = 0
    /\ UNCHANGED <<clock, pc, ticks, pairs_file, PRICE_HISTORY, history_keys, LAST_NOTIFIED,
                   LAST_NOTIFICATION_TIME, LAST_PRICES, notifications, emitted, last_eval,
                   raised, main_pairs, main_current_time, last_update_time,
                   initialization_time, initialization_posted, SHOW_INITIAL_ALERT, posts>>

\* lines 161-168: an attempt that raises ConnectionError, Timeout or HTTPError (the
\* answer to a symbol the exchange does not know is an HTTPError)
FetchFails(feed, unreliable) ==
    /\ pc = "attempt"
    /\ fetch_pos <= Len(main_pairs)
    /\ main_pairs[fetch_pos] \in unreliable \/ main_pairs[fetch_pos] \notin DOMAIN feed
    /\ IF attempt < RETRY_ATTEMPTS - 1
       THEN /\ clock' = clock + RETRY_SLEEP
            /\ attempt' = attempt + 1
            /\ UNCHANGED <<prices, fetch_pos>>
       ELSE /\ prices' = Put(prices, main_pairs[fetch_pos], None)
            /\ fetch_pos' = fetch_pos + 1
            /\ attempt' = 0
            /\ UNCHANGED clock
    /\ UNCHANGED <<pc, ticks, pairs_file, PRICE_HISTORY, history_keys, LAST_NOTIFIED,
                   LAST_NOTIFICATION_TIME, LAST_PRICES, notifications, emitted, last_eval,
                   raised, main_pairs, main_current_time, last_update_time,
                   initialization_time, initialization_posted, SHOW_INITIAL_ALERT, posts>>

\* lines 158-159: an answer with status 200 that is not JSON, or lacks data.amount, or
\* whose amount is not a number: JSONDecodeError, KeyError or ValueError, none of them
\* named by the except clause of line 161
FetchMalformed(malformed) ==
    /\ pc = "attempt"
    /\ fetch_pos <= Len(main_pairs)
    /\ main_pairs[fetch_pos] \in malformed
    /\ raised' = Exception("KeyError", "fetch_prices")
    /\ pc' = "crashed"
    /\ UNCHANGED <<clock, ticks, pairs_file, prices, PRICE_HISTORY, history_keys,
                   LAST_NOTIFIED, LAST_NOTIFICATION_TIME, LAST_PRICES, notifications,
                   emitted, last_eval, main_pairs, main_locals>>

\* line 174: return prices
FetchReturns ==
    /\ pc = "attempt"
    /\ fetch_pos > Len(main_pairs)
    /\ pc' = "update"
    /\ UNCHANGED <<clock, ticks, pairs_file, prices, PRICE_HISTORY, history_keys,
                   LAST_NOTIFIED, LAST_NOTIFICATION_TIME, LAST_PRICES, notifications,
                   emitted, last_eval, raised, main_pairs, main_locals>>

\* line 345 and lines 306-314: one post for the batch, when there is something to send
SendNotificationsWebhook(webhook) ==
    /\ pc = "send"
    /\ IF notifications # <<>> /\ USE_DISCORD_WEBHOOK /\ ~DEBUG
       THEN \E answer \in webhook : send_to_discord("notifications", answer)
       ELSE UNCHANGED <<posts, raised>>
    /\ pc' = after_call("post_init")
    /\ UNCHANGED <<clock, ticks, pairs_file, prices, PRICE_HISTORY, history_keys,
                   LAST_NOTIFIED, LAST_NOTIFICATION_TIME, LAST_PRICES, notifications,
                   emitted, last_eval, main_pairs, fetch_pos, attempt, main_current_time,
                   last_update_time, initialization_time, initialization_posted,
                   SHOW_INITIAL_ALERT>>

\* lines 348-352: the post-initialization message
PostInitialization(webhook) ==
    /\ pc = "post_init"
    /\ IF post_initialization_due(initialization_posted, main_current_time,
                                  initialization_time)
       THEN /\ IF USE_DISCORD_WEBHOOK
               THEN \E answer \in webhook :
                        send_to_discord("POST_INITIALIZATION_MESSAGE", answer)
               ELSE UNCHANGED <<posts, raised>>
            /\ initialization_posted' = (raised' = NoException)
       ELSE UNCHANGED <<posts, raised, initialization_posted>>
    /\ pc' = after_call("sleep")
    /\ UNCHANGED <<clock, ticks, pairs_file, prices, PRICE_HISTORY, history_keys,
                   LAST_NOTIFIED, LAST_NOTIFICATION_TIME, LAST_PRICES, notifications,
                   emitted, last_eval, main_pairs, fetch_pos, attempt, main_current_time,
                   last_update_time, initialization_time, SHOW_INITIAL_ALERT>>

\* line 354: time.sleep(FETCH_INTERVAL), then the top of the loop
SleepUntilNextTick(steps) ==
    /\ pc = "sleep"
    /\ \E d \in steps : clock' = clock + d
    /\ pc' = "tick"
    /\ UNCHANGED <<ticks, pairs_file, prices, PRICE_HISTORY, history_keys,
                   LAST_NOTIFIED, LAST_NOTIFICATION_TIME, LAST_PRICES, notifications,
                   emitted, last_eval, raised, main_pairs, main_locals>>

NextMain ==
    \/ Startup(Webhook)
    \/ TickStart(Listings, MainTicks)
    \/ LoadPairs
    \/ FetchSucceeds(MainFeed)
    \/ FetchFails(MainFeed, MainUnreliable)
    \/ FetchMalformed(MainMalformed)
    \/ FetchReturns
    \/ UpdatePriceHistory
    \/ CheckPriceMovements
    \/ SendNotificationsWebhook(Webhook)
    \/ PostInitialization(Webhook)
    \/ SleepUntilNextTick(MainSteps)

InitMain == InitMainWith({NoFile, File(PairLines), File(UntidyLines), File(DuplicateLines)})

SpecMain == InitMain /\ [][NextMain]_vars

NextFetch ==
    \/ Startup(Webhook)
    \/ TickStart(Listings, FetchTicks)
    \/ LoadPairs
    \/ FetchSucceeds(ZeroFeed)
    \/ FetchFails(ZeroFeed, ZeroUnreliable)
    \/ FetchMalformed(ZeroMalformed)
    \/ FetchReturns
    \/ UpdatePriceHistory
    \/ CheckPriceMovements
    \/ SendNotificationsWebhook(Webhook)
    \/ PostInitialization(Webhook)
    \/ SleepUntilNextTick(ZeroSteps)

InitFetch == InitMainWith({File(PairLines)})

SpecFetch == InitFetch /\ [][NextFetch]_vars

(***************************************************************************)
(* Properties.  A step of CheckPriceMovements is a step taken at           *)
(* pc = "check": unprimed variables are the state before the call (and     *)
(* notifications, last_eval those of the previous tick), primed ones the   *)
(* state after it.                                                         *)
(***************************************************************************)

\* C1: when a plain notification was emitted for a pair less than
\* NOTIFICATION_COOLDOWN minutes before this evaluation and percentage_change differs
\* from the stored LAST_NOTIFIED by less than THRESHOLD * COOLDOWN_MULTIPLIER, this
\* evaluation emits no notification for the pair.
C1_CooldownSuppression ==
    [][pc = "check" =>
        \A p \in Symbols :
            (HasRecent(p, clock) /\ CooldownSuppresses(p, clock))
                => For(notifications', p) = <<>>]_vars

\* a plain candidate, not held back by the last-price gate, was suppressed inside the cooldown
C1_Witness ==
    /\ pc = "send"
    /\ \E p \in DOMAIN last_eval :
        /\ last_eval[p].plain /\ ~last_eval[p].wick
        /\ last_eval[p].last_price_ok
        /\ ~last_eval[p].cooldown_ok
        /\ For(notifications, p) = <<>>
        /\ \E i \in 1..Len(emitted) :
              emitted[i].pair = p /\ ~emitted[i].wicked /\ emitted[i].time < clock

\* C2 as claimed: two consecutive evaluations seconds apart whose window satisfies a
\* wick condition and whose last-price gate passes both emit a wick notification,
\* whatever was notified before.
C2_Original ==
    [][pc = "check" =>
        \A p \in DOMAIN last_eval \cap DOMAIN last_eval' :
            (/\ last_eval'[p].time - last_eval[p].time < 60
             /\ last_eval[p].wick /\ last_eval[p].last_price_ok
             /\ last_eval'[p].wick /\ last_eval'[p].last_price_ok)
                => Wicks(notifications, p) # <<>> /\ Wicks(notifications', p) # <<>>]_vars

\* C2 as amended: ... provided on both evaluations the last-price gate passes and no
\* plain notification of the last NOTIFICATION_COOLDOWN minutes lies within
\* THRESHOLD * COOLDOWN_MULTIPLIER of percentage_change; a wick starts no cooldown.
C2_WickExemption ==
    [][pc = "check" =>
        \A p \in DOMAIN last_eval \cap DOMAIN last_eval' :
            (/\ last_eval'[p].time - last_eval[p].time < 60
             /\ last_eval[p].wick /\ last_eval[p].last_price_ok /\ last_eval[p].cooldown_ok
             /\ last_eval'[p].wick /\ last_eval'[p].last_price_ok /\ last_eval'[p].cooldown_ok)
                => Wicks(notifications, p) # <<>> /\ Wicks(notifications', p) # <<>>]_vars

\* two wick notifications for one pair, emitted by consecutive evaluations 15 seconds apart
C2_Witness ==
    /\ pc = "send"
    /\ \E i, j \in 1..Len(emitted) :
        /\ emitted[i].pair = emitted[j].pair
        /\ emitted[i].wicked /\ emitted[j].wicked
        /\ emitted[j].time = clock
        /\ emitted[i].time = clock - FETCH_INTERVAL

\* C3: an evaluation that emits a wick notification for a pair (upward or downward
\* wick condition) leaves LAST_NOTIFIED[pair] and LAST_NOTIFICATION_TIME[pair] as they
\* were, absent included; of the pair's throttle state only LAST_PRICES[pair] is set.
C3_WickLeavesBookkeeping ==
    [][pc = "check" =>
        \A p \in Symbols :
            Wicks(notifications', p) # <<>> =>
                /\ WickCondition(p, clock)
                /\ SameEntry(LAST_NOTIFIED, LAST_NOTIFIED', p)
                /\ SameEntry(LAST_NOTIFICATION_TIME, LAST_NOTIFICATION_TIME', p)
                /\ p \in DOMAIN LAST_PRICES'
                /\ LAST_PRICES'[p] = CurrentPrice(p, clock)]_vars

\* a wick notification was emitted for a pair that had cooldown bookkeeping of an earlier tick
C3_Witness ==
    /\ pc = "send"
    /\ \E p \in DOMAIN LAST_NOTIFICATION_TIME :
        /\ Wicks(notifications, p) # <<>>
        /\ LAST_NOTIFICATION_TIME[p] < clock

\* C4: an evaluation that emits a plain notification for a pair sets LAST_NOTIFIED[pair]
\* to its percentage_change and LAST_NOTIFICATION_TIME[pair] to its time; the two
\* entries change in no other step.
C4_PlainDrivesBookkeeping ==
    [][\A p \in Symbols :
        /\ (pc = "check" /\ Plains(notifications', p) # <<>>) =>
                /\ p \in DOMAIN LAST_NOTIFIED' /\ p \in DOMAIN LAST_NOTIFICATION_TIME'
                /\ LAST_NOTIFIED'[p] = Change(p, clock)
                /\ LAST_NOTIFICATION_TIME'[p] = clock
        /\ (~SameEntry(LAST_NOTIFIED, LAST_NOTIFIED', p)
              \/ ~SameEntry(LAST_NOTIFICATION_TIME, LAST_NOTIFICATION_TIME', p)) =>
                (pc = "check" /\ Plains(notifications', p) # <<>>)]_vars

\* a second plain notification for a pair replaced the bookkeeping of the first
C4_Witness ==
    /\ pc = "send"
    /\ \E p \in DOMAIN LAST_NOTIFICATION_TIME :
        /\ Plains(notifications, p) # <<>>
        /\ LAST_NOTIFICATION_TIME[p] = clock
        /\ \E i \in 1..Len(emitted) :
              emitted[i].pair = p /\ ~emitted[i].wicked /\ emitted[i].time < clock

\* C5 as claimed: LAST_PRICES[pair] changes in a step only if that step is an evaluation
\* that emits a notification for the pair.
C5_Original ==
    [][\A p \in Symbols :
        ~SameEntry(LAST_PRICES, LAST_PRICES', p) =>
            (pc = "check" /\ For(notifications', p) # <<>>)]_vars

\* C6 as claimed: the evaluation whose window is [30000, 30050, 30400, 30500], the four
\* prices ingested on successive ticks from the empty state, emits a plain notification
\* and leaves LAST_NOTIFIED = 500/300 % and LAST_NOTIFICATION_TIME = its time.
C6_Original ==
    (/\ pc = "send"
     /\ "BTC" \in DOMAIN PRICE_HISTORY
     /\ PricesOf(PRICE_HISTORY["BTC"]) = <<30000, 30050, 30400, 30500>>
     /\ RecentPrices("BTC", clock) = <<30000, 30050, 30400, 30500>>)
        => /\ Plains(notifications, "BTC") # <<>>
           /\ Wicks(notifications, "BTC") = <<>>
           /\ "BTC" \in DOMAIN LAST_NOTIFIED
           /\ LAST_NOTIFIED["BTC"] = percent_change(30500, 30000)
           /\ LAST_NOTIFICATION_TIME["BTC"] = clock

\* C6 as amended: the plain notification is emitted one tick earlier, at the window
\* [30000, 30050, 30400], with LAST_NOTIFIED = 400/300 % and LAST_NOTIFICATION_TIME that
\* tick's time; the evaluation of [30000, 30050, 30400, 30500] emits nothing and leaves both.
C6_ExamplePlain ==
    /\ (/\ pc = "send"
        /\ "BTC" \in DOMAIN PRICE_HISTORY
        /\ PricesOf(PRICE_HISTORY["BTC"]) = <<30000, 30050, 30400>>)
           => /\ Len(notifications) = 1
              /\ Plains(notifications, "BTC") # <<>>
              /\ LAST_NOTIFIED["BTC"] = percent_change(30400, 30000)
              /\ LAST_NOTIFICATION_TIME["BTC"] = clock
              /\ LAST_PRICES["BTC"] = 30400
    /\ (/\ pc = "send"
        /\ "BTC" \in DOMAIN PRICE_HISTORY
        /\ PricesOf(PRICE_HISTORY["BTC"]) = <<30000, 30050, 30400, 30500>>)
           => /\ notifications = <<>>
              /\ LAST_NOTIFIED["BTC"] = percent_change(30400, 30000)
              /\ LAST_NOTIFICATION_TIME["BTC"] = PRICE_HISTORY["BTC"][3][1]
              /\ LAST_PRICES["BTC"] = 30400

\* the four prices were ingested on successive ticks and the fourth evaluation emitted nothing
C6_Witness ==
    /\ pc = "send"
    /\ ticks = 4
    /\ "BTC" \in DOMAIN PRICE_HISTORY
    /\ RecentPrices("BTC", clock) = <<30000, 30050, 30400, 30500>>
    /\ notifications = <<>>
    /\ \E i \in 1..Len(emitted) : emitted[i].pair = "BTC" /\ ~emitted[i].wicked

\* the state before the evaluation of C7: a plain notification at 500/300 % (initial 30000,
\* current 30500) one minute ago, and a window that starts at 30000, has a high of 30930
\* and ends at 30500
C7_Case ==
    /\ HasRecent("BTC", clock)
    /\ InitialPrice("BTC", clock) = 30000
    /\ SeqMax(RecentPrices("BTC", clock)) = 30930
    /\ CurrentPrice("BTC", clock) = 30500
    /\ "BTC" \in DOMAIN LAST_NOTIFIED
    /\ LAST_NOTIFIED["BTC"] = percent_change(30500, 30000)
    /\ LAST_NOTIFICATION_TIME["BTC"] = clock - 60
    /\ \E i \in 1..Len(emitted) :
        /\ emitted[i].pair = "BTC" /\ ~emitted[i].wicked
        /\ emitted[i].time = clock - 60
        /\ emitted[i].current_price = 30500
        /\ emitted[i].change = percent_change(30500, 30000)

\* C7 as claimed: that evaluation emits a wick notification and leaves LAST_NOTIFIED.
C7_Original ==
    [][(pc = "check" /\ C7_Case) =>
        /\ Wicks(notifications', "BTC") # <<>>
        /\ LAST_NOTIFIED'["BTC"] = LAST_NOTIFIED["BTC"]]_vars

\* C7 as amended: that evaluation emits no notification (the cooldown gate suppresses the
\* pair: 1 minute < 5 minutes and the change differs by 0 < 2 from LAST_NOTIFIED) and
\* leaves LAST_NOTIFIED, LAST_NOTIFICATION_TIME and LAST_PRICES of the pair.
C7_ExampleWickSuppressed ==
    [][(pc = "check" /\ C7_Case) =>
        /\ For(notifications', "BTC") = <<>>
        /\ LAST_NOTIFIED'["BTC"] = LAST_NOTIFIED["BTC"]
        /\ LAST_NOTIFICATION_TIME'["BTC"] = LAST_NOTIFICATION_TIME["BTC"]
        /\ SameEntry(LAST_PRICES, LAST_PRICES', "BTC")]_vars

\* the evaluation of C7 has run: its window held a wick and nothing was emitted
C7_Witness ==
    /\ pc = "send"
    /\ C7_Case
    /\ "BTC" \in DOMAIN last_eval
    /\ last_eval["BTC"].wick
    /\ notifications = <<>>

\* C8: when a pair passes both gates and both abs(percentage_change) >= THRESHOLD and the
\* upward wick condition hold, the evaluation appends exactly one notification for the
\* pair, the wick one with VOLATILE_TEXT, and does not touch the cooldown bookkeeping.
C8_WickPrecedence ==
    [][pc = "check" =>
        \A p \in Symbols :
            (/\ HasRecent(p, clock)
             /\ ~CooldownSuppresses(p, clock)
             /\ LastPriceGatePasses(p, clock)
             /\ PlainCondition(p, clock)
             /\ UpwardWick(p, clock))
                => /\ Len(For(notifications', p)) = 1
                   /\ Len(Wicks(notifications', p)) = 1
                   /\ Wicks(notifications', p)[1].extra_info = VOLATILE_TEXT
                   /\ Wicks(notifications', p)[1].change = Change(p, clock)
                   /\ SameEntry(LAST_NOTIFIED, LAST_NOTIFIED', p)
                   /\ SameEntry(LAST_NOTIFICATION_TIME, LAST_NOTIFICATION_TIME', p)]_vars

\* an upward wick whose net change also reaches the threshold was reported as a wick
C8_Witness ==
    /\ pc = "send"
    /\ \E p \in DOMAIN last_eval :
        /\ last_eval[p].up /\ last_eval[p].plain
        /\ last_eval[p].last_price_ok /\ last_eval[p].cooldown_ok
        /\ Len(Wicks(notifications, p)) = 1

\* C9: when the cooldown gate or the last-price gate suppresses a pair, the evaluation
\* leaves LAST_PRICES, LAST_NOTIFIED and LAST_NOTIFICATION_TIME of the pair and appends
\* no notification for it.
C9_SuppressionShortCircuits ==
    [][pc = "check" =>
        \A p \in Symbols :
            (HasRecent(p, clock)
                /\ (CooldownSuppresses(p, clock) \/ ~LastPriceGatePasses(p, clock)))
                => /\ For(notifications', p) = <<>>
                   /\ SameEntry(LAST_PRICES, LAST_PRICES', p)
                   /\ SameEntry(LAST_NOTIFIED, LAST_NOTIFIED', p)
                   /\ SameEntry(LAST_NOTIFICATION_TIME, LAST_NOTIFICATION_TIME', p)]_vars

\* the cooldown gate suppressed a pair whose price had moved away from LAST_PRICES
C9_Witness ==
    /\ pc = "send"
    /\ \E p \in DOMAIN last_eval :
        /\ ~last_eval[p].cooldown_ok
        /\ last_eval[p].last_price_ok
        /\ p \in DOMAIN LAST_PRICES
        /\ LAST_PRICES[p] # CurrentPrice(p, clock)
        /\ For(notifications, p) = <<>>

\* C10: right after update_price_history ingested a price for a pair at time now, the
\* pair's history ends with that sample and holds no sample older than
\* HISTORY_RETENTION_MINUTES.
C10_HistoryEviction ==
    pc = "check" =>
        \A p \in DOMAIN prices :
            prices[p] # None =>
                /\ p \in DOMAIN PRICE_HISTORY
                /\ PRICE_HISTORY[p][Len(PRICE_HISTORY[p])] = <<clock, prices[p][1]>>
                /\ \A i \in 1..Len(PRICE_HISTORY[p]) :
                      clock - PRICE_HISTORY[p][i][1]
                          <= timedelta_minutes(HISTORY_RETENTION_MINUTES)

\* an ingest evicted the samples of the earlier ticks of a pair
C10_Witness ==
    /\ pc = "check"
    /\ ticks = 3
    /\ \E p \in DOMAIN prices :
        /\ prices[p] # None
        /\ p \in DOMAIN LAST_PRICES
        /\ Len(PRICE_HISTORY[p]) = 1

\* C11: a call of update_price_history that carries None for a pair leaves that pair's
\* entry of PRICE_HISTORY as it was (nothing appended, nothing evicted, no entry created
\* for an unknown pair), while every pair of the same call that has a price ends with
\* the new sample.
C11_NonePriceIsNoOp ==
    [][pc = "update" =>
        \A p \in DOMAIN prices :
            /\ prices[p] = None => SameEntry(PRICE_HISTORY, PRICE_HISTORY', p)
            /\ prices[p] # None =>
                  /\ p \in DOMAIN PRICE_HISTORY'
                  /\ PRICE_HISTORY'[p][Len(PRICE_HISTORY'[p])] = <<clock, prices[p][1]>>]_vars

\* a pair came back None and kept a sample older than the retention period, while
\* another pair of the same call was ingested
C11_Witness ==
    /\ pc = "check"
    /\ \E p \in DOMAIN prices :
        /\ prices[p] = None
        /\ p \in DOMAIN PRICE_HISTORY
        /\ clock - PRICE_HISTORY[p][1][1] >= timedelta_minutes(HISTORY_RETENTION_MINUTES)
    /\ \E q \in DOMAIN prices :
        /\ prices[q] # None
        /\ PRICE_HISTORY[q][Len(PRICE_HISTORY[q])] = <<clock, prices[q][1]>>

\* C16: at any time now and for window lengths d1 <= d2, the samples of a pair with
\* timestamp >= now - d1 are a suffix of those with timestamp >= now - d2; with
\* HISTORICAL_INTERVAL_MINUTES >= 5 the 5-minute window is contained in the
\* historical window, so the historical window is non-empty whenever the 5-minute
\* window is.
C16_WindowMonotone ==
    \A p \in DOMAIN PRICE_HISTORY :
        /\ \A d1, d2 \in Durations :
              d1 <= d2 => IsSuffix(Window(PRICE_HISTORY[p], clock - d1),
                                   Window(PRICE_HISTORY[p], clock - d2))
        /\ HISTORICAL_INTERVAL_MINUTES >= RECENT_WINDOW_MINUTES =>
              LET recent == Window(PRICE_HISTORY[p],
                                   clock - timedelta_minutes(RECENT_WINDOW_MINUTES))
                  historical == Window(PRICE_HISTORY[p],
                                       clock - timedelta_minutes(HISTORICAL_INTERVAL_MINUTES))
              IN  /\ Range(recent) \subseteq Range(historical)
                  /\ Len(recent) > 0 => Len(historical) > 0

\* the 5-minute window of a pair is non-empty and strictly shorter than its historical window
C16_Witness ==
    /\ pc = "check"
    /\ \E p \in DOMAIN PRICE_HISTORY :
        LET recent == Window(PRICE_HISTORY[p],
                             clock - timedelta_minutes(RECENT_WINDOW_MINUTES))
            historical == Window(PRICE_HISTORY[p],
                                 clock - timedelta_minutes(HISTORICAL_INTERVAL_MINUTES))
        IN  /\ Len(recent) > 0
            /\ Len(recent) < Len(historical)

\* C17: one call of check_price_movements appends at most one notification per pair
\* (the upward wick, downward wick and plain branches exclude one another), and none
\* for a pair whose 5-minute window is empty.
C17_AtMostOnePerPair ==
    [][pc = "check" =>
        \A p \in DOMAIN PRICE_HISTORY :
            /\ Len(For(notifications', p)) <= 1
            /\ ~HasRecent(p, clock) => For(notifications', p) = <<>>]_vars

\* one call evaluated a pair that met both the wick and the plain condition and a pair
\* whose 5-minute window was empty
C17_Witness ==
    /\ pc = "send"
    /\ \E p \in DOMAIN last_eval :
        /\ last_eval[p].time = clock
        /\ last_eval[p].wick /\ last_eval[p].plain
        /\ Len(For(notifications, p)) = 1
    /\ \E q \in DOMAIN PRICE_HISTORY :
        /\ ~HasRecent(q, clock)
        /\ For(notifications, q) = <<>>

\* C12 as claimed: a price sample of 0 never makes check_price_movements raise; the
\* pair whose window starts with it is skipped and the evaluation goes on.
C12_Original ==
    \A p \in DOMAIN PRICE_HISTORY :
        (\E i \in 1..Len(PRICE_HISTORY[p]) : PRICE_HISTORY[p][i][2] = 0)
            => raised # Exception("ZeroDivisionError", "check_price_movements")

\* C13 as claimed: fetch_prices returns for every pair list, with an entry for every
\* pair, after at most RETRY_ATTEMPTS attempts per pair; the failure of one pair's
\* requests never ends the tick.
C13_Original ==
    /\ attempt < RETRY_ATTEMPTS
    /\ pc = "update" => \A i \in 1..Len(main_pairs) : main_pairs[i] \in DOMAIN prices
    /\ raised.function # "fetch_prices"

\* C14 as claimed: a post the webhook did not take is not sent again and never stops
\* the loop of main.
C14_Original ==
    \A i \in 1..Len(posts) :
        posts[i].answer # "delivered" =>
            /\ raised.function # "send_to_discord"
            /\ \A j \in 1..Len(posts) :
                  (posts[j].message = posts[i].message /\ posts[j].tick = posts[i].tick)
                      => j = i

\* the posts of the initial alert and of the post-initialization message
InitialAlerts == SelectSeq(posts, LAMBDA m : m.message = "INITIAL_ALERT_MESSAGE")

PostInitializations == SelectSeq(posts, LAMBDA m : m.message = "POST_INITIALIZATION_MESSAGE")

\* C15: the initial alert is sent at most once, and before the first tick; the
\* post-initialization message is sent at most once, never before
\* HISTORICAL_INTERVAL_MINUTES have passed since start-up (time 0), and by the end of a
\* tick it has been sent exactly when that tick started at or after that instant, so
\* it goes out in the first such tick and in no later one.
C15_LifecycleNotices ==
    /\ Len(InitialAlerts) <= 1
    /\ \A i \in 1..Len(InitialAlerts) : InitialAlerts[i].tick = 0
    /\ Len(PostInitializations) <= 1
    /\ \A i \in 1..Len(PostInitializations) :
          PostInitializations[i].time >= timedelta_minutes(HISTORICAL_INTERVAL_MINUTES)
    /\ pc = "sleep" =>
          (Len(PostInitializations) = 1
              <=> main_current_time >= timedelta_minutes(HISTORICAL_INTERVAL_MINUTES))

\* the message went out in the second tick, the first to start an hour after start-up,
\* and the third tick has ended without sending it again
C15_Witness ==
    /\ pc = "sleep"
    /\ ticks = 3
    /\ Len(InitialAlerts) = 1
    /\ Len(PostInitializations) = 1
    /\ PostInitializations[1].tick = 2

\* C18 as claimed: whatever update_active_pairs met, and also when PAIRS_FILE has never
\* been written, main goes on into the tick: load_pairs does not raise.
C18_Original == raised # Exception("FileNotFoundError", "load_pairs")

\* C19 as claimed: the list load_pairs returns, which fetch_prices then walks, holds no
\* empty entry and no symbol twice, whatever blank lines, whitespace or duplicates
\* PAIRS_FILE contains.
C19_Original ==
    pc = "attempt" =>
        /\ \A i \in 1..Len(main_pairs) : main_pairs[i] # ""
        /\ \A i, j \in 1..Len(main_pairs) : main_pairs[i] = main_pairs[j] => i = j

\* the tick ingested a sample for p
Ingested(p) == p \in DOMAIN prices /\ prices[p] # None

\* C20 as claimed: a call of check_price_movements emits a notification for a pair only
\* if update_price_history ingested a sample for that pair in the same tick.
C20_Original ==
    [][pc = "check" =>
        \A p \in DOMAIN PRICE_HISTORY :
            For(notifications', p) # <<>> => Ingested(p)]_vars

\* C20: a call of check_price_movements emits a notification for a pair only if the
\* tick ingested a sample for the pair, or the pair's newest retained sample lies in
\* the 5-minute window and differs from LAST_PRICES[pair] by at least
\* NOTIFICATION_THRESHOLD percent.
C20_StaleNeedsUnseenPrice ==
    [][pc = "check" =>
        \A p \in DOMAIN PRICE_HISTORY :
            For(notifications', p) # <<>> =>
                \/ Ingested(p)
                \/ /\ HasRecent(p, clock)
                   /\ p \in DOMAIN LAST_PRICES
                   /\ LAST_PRICES[p] # 0
                   /\ AbsAtLeast(percent_change(CurrentPrice(p, clock), LAST_PRICES[p]),
                                 NOTIFICATION_THRESHOLD)]_vars

\* a pair whose fetch returned None in this tick was notified from its retained history
C20_Witness ==
    /\ pc = "send"
    /\ \E p \in DOMAIN prices :
        /\ prices[p] = None
        /\ For(notifications, p) # <<>>

\* C21: once LAST_PRICES[pair] holds a non-zero value, a step replaces it only by a
\* price at least NOTIFICATION_THRESHOLD percent away from it, and every notification
\* an evaluation emits for the pair carries a current_price at least
\* NOTIFICATION_THRESHOLD percent away from the value LAST_PRICES[pair] held before
\* that evaluation.  (An evaluation that returns is a step from pc = "check" to
\* pc = "send"; one that raises assigns nothing to notifications.)
C21_LastPriceMovesByThreshold ==
    [][\A p \in DOMAIN LAST_PRICES :
        LAST_PRICES[p] # 0 =>
            /\ p \in DOMAIN LAST_PRICES'
            /\ LAST_PRICES'[p] # LAST_PRICES[p] =>
                  AbsAtLeast(percent_change(LAST_PRICES'[p], LAST_PRICES[p]),
                             NOTIFICATION_THRESHOLD)
            /\ (pc = "check" /\ pc' = "send") =>
                  \A i \in 1..Len(notifications') :
                      notifications'[i].pair = p =>
                          AbsAtLeast(percent_change(notifications'[i].current_price,
                                                    LAST_PRICES[p]),
                                     NOTIFICATION_THRESHOLD)]_vars

\* a pair evaluated on an earlier tick was notified again at a new price, which
\* LAST_PRICES took, while another evaluation left a differing price out of LAST_PRICES
C21_Witness ==
    /\ pc = "send"
    /\ \E p \in DOMAIN LAST_PRICES :
        /\ Len(PRICE_HISTORY[p]) >= 2
        /\ For(notifications, p) # <<>>
        /\ LAST_PRICES[p] = CurrentPrice(p, clock)
        /\ LAST_PRICES[p] # PRICE_HISTORY[p][Len(PRICE_HISTORY[p]) - 1][2]

====
